---- MODULE Spec2Model ----
(***************************************************************************)
(* Model of the fan-control engine of ASUSFanControlEnhanced (src/main.py) *)
(* and of the tray thread that calls into it (src/tray.py).                *)
(*                                                                         *)
(* Two threads are modelled:                                               *)
(*   - the control loop, FanController.run, one action per statement group *)
(*     between two accesses to fields another thread writes;               *)
(*   - the tray (pystray menu) thread, which calls set_profile and stop.   *)
(* Before the threads start, main validates the executable and probes the  *)
(* driver version.                                                         *)
(* Optional values (Python None) are sequences of length at most one:      *)
(* None is <<>> and the value v is <<v>>.                                  *)
(***************************************************************************)
EXTENDS Integers, Sequences, FiniteSets, TLC

\* ------------------------------------------------------------------------
\* Bounds of the model
\* ------------------------------------------------------------------------

\* number of iterations of the control loop that are explored
MaxTicks == 3

\* highest temperature at which curves are compared point by point
MaxTemp == 100

\* number of direct calls made by the call-level specification CallSpec
MaxCalls == 6

\* ------------------------------------------------------------------------
\* Configuration (DEFAULT_CONFIG) and preset tables
\* ------------------------------------------------------------------------

low_temp == 20
high_temp == 60
min_speed == 10
max_speed == 100
hysteresis_degrees == 3
spike_threshold == 15
max_consecutive_failures == 10
driver_check_interval == 60

None == <<>>
Some(v) == <<v>>
Val(o) == o[1]

PROFILES ==
  [ silent      |-> << <<0, 0>>, <<35, 5>>, <<45, 15>>, <<55, 35>>,
                       <<65, 55>>, <<75, 80>>, <<85, 100>> >>,
    balanced    |-> << <<0, 10>>, <<30, 10>>, <<40, 25>>, <<50, 50>>,
                       <<60, 75>>, <<70, 100>> >>,
    performance |-> << <<0, 20>>, <<25, 30>>, <<35, 50>>, <<45, 70>>,
                       <<55, 90>>, <<65, 100>> >> ]

\* Explicit waypoint lists a config file can carry in "curve", as written by
\* the user: unsorted, with speeds outside 0..100 and a repeated temperature.
CustomCurveA == << <<70, 130>>, <<50, 40>>, <<30, -20>>, <<50, 60>> >>
CustomCurveB == << <<60, 80>>, <<40, 30>> >>

\* The configurations the controller is started with: each preset (the
\* default one with the default smoothing window), a profile name that is no
\* preset, and the two explicit curves.
\* Only the default configuration keeps the default failure limit; the
\* others lower it to 2.
Configs ==
  { [profile |-> "balanced", curve |-> None, smoothing_window |-> 5,
     max_consecutive_failures |-> max_consecutive_failures,
     low_temp |-> low_temp, high_temp |-> high_temp,
     min_speed |-> min_speed, max_speed |-> max_speed] }
  \cup { [profile |-> p, curve |-> None, smoothing_window |-> 2,
          max_consecutive_failures |-> 2,
          low_temp |-> low_temp, high_temp |-> high_temp,
          min_speed |-> min_speed, max_speed |-> max_speed] :
        p \in {"silent", "performance", "legacy"} }
  \cup { [profile |-> "silent", curve |-> Some(c), smoothing_window |-> 2,
          max_consecutive_failures |-> 2,
          low_temp |-> low_temp, high_temp |-> high_temp,
          min_speed |-> min_speed, max_speed |-> max_speed] :
        c \in {CustomCurveA, CustomCurveB} }

\* Configurations for the direct calls of UnitSpec: every combination of a
\* profile name, an explicit curve (absent, empty or given) and a pair of
\* legacy temperature thresholds, which a config file may give in any order.
UnitConfigs ==
  { [profile |-> p, curve |-> c, smoothing_window |-> 5,
     max_consecutive_failures |-> max_consecutive_failures,
     low_temp |-> t[1], high_temp |-> t[2],
     min_speed |-> min_speed, max_speed |-> max_speed] :
    p \in {"silent", "balanced", "performance", "legacy"},
    c \in {None, Some(<<>>), Some(CustomCurveA), Some(CustomCurveB)},
    t \in {<<low_temp, high_temp>>, <<70, 60>>, <<50, 50>>} }

\* Names the tray thread passes to set_profile.
SwitchNames == {"performance", "turbo"}

\* Outcomes of get_cpu_temp: None (command failed or unparseable) or an int.
ReadOutcomes == {None} \cup { Some(t) : t \in {-1, 0, 20, 44, 45, 90} }

\* Temperatures passed by the direct calls of CallSpec.
CallTemps == {50, 60, 65, 70, 80, 90, 100}

\* A version string is the sequence of its dot-separated fields.
\* Outcomes of check_driver_version: None or the driver's version string.
ProbeOutcomes ==
  {None, Some(<<"3", "1", "38", "0">>), Some(<<"3", "1", "39", "0">>)}

\* Version strings for the direct calls of ProbeSpec: shorter and longer
\* than four fields, below, at and above 3.1.38.0, and with a field that
\* is no decimal numeral.
ProbeVersions ==
  { <<"3", "1", "38", "0">>, <<"3", "1", "39", "0">>, <<"3", "1", "38">>,
    <<"3", "1", "38", "0", "0">>, <<"3", "1", "38", "1">>, <<"3", "3">>,
    <<"1", "39", "39", "39">>, <<"3", "1", "39", "x">>, <<"3", "0", "39">>,
    <<"39">>, <<"0">> }

\* Seconds by which time.time() has advanced between two calls of
\* _check_driver_if_needed.
Elapsed == {59, 60}

\* The machine of the tray mode: its driver-version query fails, and a
\* minute passes between two calls of _check_driver_if_needed.
TrayMachine ==
  [reads |-> ReadOutcomes, probes |-> {None}, elapsed |-> {60},
   raises |-> FALSE, tray |-> TRUE]

\* The machine of the headless mode (main, lines 783-785).
HeadlessMachine ==
  [reads |-> {None} \cup { Some(t) : t \in {0 - 1, 0, 44, 45, 90} },
   probes |-> ProbeOutcomes, elapsed |-> Elapsed, raises |-> TRUE,
   tray |-> FALSE]

\* A tray-mode machine whose external commands can also raise.
StopMachine ==
  [reads |-> {None} \cup { Some(t) : t \in {0, 44, 45, 90} },
   probes |-> {None}, elapsed |-> {60}, raises |-> TRUE, tray |-> TRUE]

COMPATIBLE_DRIVER_VERSION == <<3, 1, 38, 0>>

\* ------------------------------------------------------------------------
\* Pure helpers
\* ------------------------------------------------------------------------

Min(S) == CHOOSE x \in S : \A y \in S : x <= y

\* int(n/d) taken for round(n/d), for non-negative quotients
round_truncating(n, d) == n \div d

\* Python round(n/d) for d > 0: nearest integer, ties to the even one.
\* The source rounds a binary floating-point value; for every waypoint table
\* and integer temperature of this model that value rounds as the exact
\* quotient does.
round(n, d) ==
  LET q == n \div d
      r == n % d
  IN  IF 2 * r < d THEN q
      ELSE IF 2 * r > d THEN q + 1
      ELSE IF q % 2 = 0 THEN q ELSE q + 1

RECURSIVE Sum(_)
Sum(s) == IF s = <<>> THEN 0 ELSE Head(s) + Sum(Tail(s))

\* sorted(..., key=lambda x: x[0]): stable insertion by temperature
RECURSIVE insert_sorted(_, _)
insert_sorted(p, s) ==
  IF s = <<>> THEN <<p>>
  ELSE IF p[1] < Head(s)[1] THEN <<p>> \o s
  ELSE <<Head(s)>> \o insert_sorted(p, Tail(s))

RECURSIVE sorted(_)
sorted(s) ==
  IF s = <<>> THEN <<>>
  ELSE insert_sorted(s[Len(s)], sorted(SubSeq(s, 1, Len(s) - 1)))

\* resolve_fan_curve with the preset looked up before the explicit list
resolve_fan_curve_profile_first(cfg) ==
  IF cfg.profile \in DOMAIN PROFILES THEN PROFILES[cfg.profile]
  ELSE IF cfg.curve # None /\ Val(cfg.curve) # <<>>
    THEN sorted(Val(cfg.curve))
  ELSE << <<cfg.low_temp, cfg.min_speed>>, <<cfg.high_temp, cfg.max_speed>> >>

\* FanController._resolve_fan_curve
resolve_fan_curve(cfg) ==
  IF cfg.curve # None /\ Val(cfg.curve) # <<>> THEN sorted(Val(cfg.curve))
  ELSE IF cfg.profile \in DOMAIN PROFILES THEN PROFILES[cfg.profile]
  ELSE << <<cfg.low_temp, cfg.min_speed>>, <<cfg.high_temp, cfg.max_speed>> >>

\* curve_target without the lower boundary clause of lines 497-498
curve_target_no_floor(curve, temp) ==
  LET n == Len(curve) IN
  IF temp >= curve[n][1] THEN curve[n][2]
  ELSE
    LET hits == { i \in 1..(n - 1) :
                    curve[i][1] <= temp /\ temp <= curve[i + 1][1] }
    IN  IF hits = {} THEN curve[n][2]
        ELSE
          LET i      == Min(hits)
              t_low  == curve[i][1]
              s_low  == curve[i][2]
              t_high == curve[i + 1][1]
              s_high == curve[i + 1][2]
          IN  IF t_high = t_low THEN s_high
              ELSE round(s_low * (t_high - t_low)
                           + (temp - t_low) * (s_high - s_low),
                         t_high - t_low)

\* curve_target with the fraction measured from the upper waypoint
curve_target_reversed(curve, temp) ==
  LET n == Len(curve) IN
  IF temp <= curve[1][1] THEN curve[1][2]
  ELSE IF temp >= curve[n][1] THEN curve[n][2]
  ELSE
    LET hits == { i \in 1..(n - 1) :
                    curve[i][1] <= temp /\ temp <= curve[i + 1][1] }
    IN  IF hits = {} THEN curve[n][2]
        ELSE
          LET i      == Min(hits)
              t_low  == curve[i][1]
              s_low  == curve[i][2]
              t_high == curve[i + 1][1]
              s_high == curve[i + 1][2]
          IN  IF t_high = t_low THEN s_high
              ELSE round(s_low * (t_high - t_low)
                           + (t_high - temp) * (s_high - s_low),
                         t_high - t_low)

\* decide_fan_speed, lines 496-513: the target the curve gives for temp
curve_target(curve, temp) ==
  LET n == Len(curve) IN
  IF temp <= curve[1][1] THEN curve[1][2]
  ELSE IF temp >= curve[n][1] THEN curve[n][2]
  ELSE
    LET hits == { i \in 1..(n - 1) :
                    curve[i][1] <= temp /\ temp <= curve[i + 1][1] }
    IN  IF hits = {} THEN curve[n][2]
        ELSE
          LET i      == Min(hits)
              t_low  == curve[i][1]
              s_low  == curve[i][2]
              t_high == curve[i + 1][1]
              s_high == curve[i + 1][2]
          IN  IF t_high = t_low THEN s_high
              ELSE round(s_low * (t_high - t_low)
                           + (temp - t_low) * (s_high - s_low),
                         t_high - t_low)

\* hysteresis_holds with the sign of the drop reversed
hysteresis_holds_reversed(prev, temp) == temp - prev < hysteresis_degrees

\* decide_fan_speed, line 523: the decrease is held back
hysteresis_holds(prev, temp) == prev - temp < hysteresis_degrees

\* line 526 without the clamp
clamp_missing(target) == target

\* decide_fan_speed, line 526
clamp(target) ==
  IF target < 0 THEN 0 ELSE IF target > 100 THEN 100 ELSE target

\* detect_spike with a strict comparison
detect_spike_strict(prev, current_temp) ==
  prev # None /\ current_temp - Val(prev) > spike_threshold

\* detect_spike
detect_spike(prev, current_temp) ==
  prev # None /\ current_temp - Val(prev) >= spike_threshold

\* append to a deque without maxlen
push_no_evict(history, x, maxlen) == Append(history, x)

\* deque(maxlen=maxlen).append
push(history, x, maxlen) ==
  LET h == Append(history, x)
  IN  IF Len(h) > maxlen THEN Tail(h) ELSE h

\* get_smoothed_temp's return value for the history after the append
mean(history) == round(Sum(history), Len(history))

\* adaptive_sleep with the first comparison of line 555 against high
adaptive_sleep_late(cfg, temp) ==
  IF temp = None THEN 3
  ELSE IF Val(temp) <= 0 THEN 3
  ELSE IF Val(temp) < cfg.high_temp THEN 10
  ELSE 3

\* adaptive_sleep; temp is optional
adaptive_sleep(cfg, temp) ==
  IF temp = None THEN 3
  ELSE IF Val(temp) <= 0 THEN 3
  ELSE IF Val(temp) < cfg.high_temp - 10 THEN 10
  ELSE IF Val(temp) < cfg.high_temp THEN 5
  ELSE 3

\* int(x) for the fields that are decimal numerals; any other field raises
\* ValueError.
IntOf == [x \in {"0", "1", "3", "38", "39"} |->
            CASE x = "0" -> 0 [] x = "1" -> 1 [] x = "3" -> 3
              [] x = "38" -> 38 [] x = "39" -> 39]

\* _parse_version
parse_version(version_str) ==
  IF \A i \in 1..Len(version_str) : version_str[i] \in DOMAIN IntOf
    THEN [i \in 1..Len(version_str) |-> IntOf[version_str[i]]]
    ELSE <<0>>

\* a > b on tuples of ints: the first differing item decides; with no
\* differing item the longer tuple is the greater
RECURSIVE tuple_gt(_, _)
tuple_gt(a, b) ==
  IF a = <<>> THEN FALSE
  ELSE IF b = <<>> THEN TRUE
  ELSE IF Head(a) # Head(b) THEN Head(a) > Head(b)
  ELSE tuple_gt(Tail(a), Tail(b))

\* incompatible_after that takes a failed probe for a compatible driver
incompatible_after_assumes_ok(version_str) ==
  IF version_str = None THEN Some(FALSE)
  ELSE Some(tuple_gt(parse_version(Val(version_str)),
                     COMPATIBLE_DRIVER_VERSION))

\* incompatible_after with the comparison of line 408 not strict
incompatible_after_not_below(version_str) ==
  IF version_str = None THEN None
  ELSE Some(~tuple_gt(COMPATIBLE_DRIVER_VERSION,
                      parse_version(Val(version_str))))

\* The value _check_driver_if_needed gives _driver_incompatible after a
\* probe that returned version_str (an optional version string).
incompatible_after(version_str) ==
  IF version_str = None THEN None
  ELSE Some(tuple_gt(parse_version(Val(version_str)),
                     COMPATIBLE_DRIVER_VERSION))

\* ------------------------------------------------------------------------
\* State
\* ------------------------------------------------------------------------

VARIABLES
  config,                      \* self.config: the entries the engine uses
  fan_curve,                   \* self._fan_curve
  current_set_fan_percentage,  \* optional int
  previous_temp,               \* optional int
  consecutive_failures,
  temp_history,
  running,
  pc,                          \* position of the control-loop thread
  raw_temp, smoothed_temp, fan_speed,   \* locals of run
  curve, target,               \* locals of decide_fan_speed
  held,                        \* decide_fan_speed executed line 524
  ticks,                       \* iterations started
  cmd_invoked,                 \* this iteration ran --set-fan-speeds
  tray_pc,                     \* position of the tray thread
  profile_name,                \* argument of the set_profile call
  sp_result,                   \* optional bool: set_profile's return value
  since_switch,                \* "none", "pending" (a switch returned true
                               \* and no iteration began since), "first"
                               \* (the iteration in progress is the first
                               \* one begun after it)
  driver_incompatible,         \* self._driver_incompatible: optional bool
  last_driver_check,           \* self._last_driver_check
  cached_driver_version,       \* self._cached_driver_version
  now,                         \* latest value returned by time.time()
  last_probe,                  \* optional time of the latest call of
                               \* check_driver_version
  severity,                    \* level of the failure message this
                               \* iteration logged, "none" if it logged none
  success,                     \* optional bool: local of run, line 641
  bad_reads,                   \* number of most recent consecutive reads
                               \* that returned None, zero or a negative
  machine,                     \* what the program runs on: the outcomes
                               \* its temperature reads and driver probes
                               \* can have, whether its external commands
                               \* can raise what _run_command does not
                               \* catch, and whether it runs the tray
  sleep_time,                  \* optional int: seconds of the sleep that
                               \* ended the latest iteration
  calls,                       \* direct calls made (CallSpec)
  pushed,                      \* values passed to get_smoothed_temp by
                               \* the direct calls (CallSpec)
  snapshot,                    \* optional record: the status snapshot the
                               \* loop published last
  view,                        \* optional record: the latest result of
                               \* get_status_snapshot in the tray thread
  updater_pc                   \* position of the icon-updater thread:
                               \* "test" (at or before the loop condition
                               \* of tray.py line 775) or "exited"

loop_vars == <<previous_temp, consecutive_failures, temp_history, pc,
               raw_temp, smoothed_temp, fan_speed, curve, target, held,
               ticks, cmd_invoked, severity, success, bad_reads,
               sleep_time>>
tray_vars == <<tray_pc, profile_name, sp_result>>
driver_vars == <<driver_incompatible, last_driver_check,
                 cached_driver_version, now, last_probe>>
call_vars == <<calls, pushed>>
snap_vars == <<snapshot, view, updater_pc>>
vars == <<config, fan_curve, current_set_fan_percentage, running,
          loop_vars, tray_vars, since_switch, driver_vars, call_vars,
          machine, snap_vars>>

\* FanController.__init__, as main calls it; the clock reads 1000
InitWith(cfgs, m) ==
  /\ config \in cfgs
  /\ machine = m
  /\ fan_curve = resolve_fan_curve(config)
  /\ current_set_fan_percentage = None
  /\ previous_temp = None
  /\ consecutive_failures = 0
  /\ temp_history = <<>>
  /\ running = FALSE
  /\ pc = "main"
  /\ raw_temp = None
  /\ smoothed_temp = 0
  /\ fan_speed = None
  /\ curve = <<>>
  /\ target = None
  /\ held = FALSE
  /\ ticks = 0
  /\ cmd_invoked = FALSE
  /\ tray_pc = "off"
  /\ profile_name = ""
  /\ sp_result = None
  /\ since_switch = "none"
  /\ driver_incompatible = None
  /\ last_driver_check = 0
  /\ cached_driver_version = None
  /\ now = 1000
  /\ last_probe = None
  /\ severity = "none"
  /\ success = None
  /\ bad_reads = 0
  /\ sleep_time = None
  /\ calls = 0
  /\ pushed = <<>>
  /\ snapshot = None
  /\ view = None
  /\ updater_pc = "test"

Init == InitWith(Configs, TrayMachine)

\* ------------------------------------------------------------------------
\* Startup: main, lines 758-785
\* ------------------------------------------------------------------------

\* DriverCheck without the throttle of lines 393-394
DriverCheck_unthrottled(t, version_str) ==
  /\ now' = t
  /\ last_driver_check' = t
  /\ last_probe' = Some(t)
  /\ cached_driver_version' = version_str
  /\ driver_incompatible' = incompatible_after(version_str)

\* _check_driver_if_needed, lines 386-426: time.time() returns t and the
\* probe, when it is made, returns version_str
DriverCheck(t, version_str) ==
  /\ now' = t
  /\ IF t - last_driver_check < driver_check_interval
       THEN UNCHANGED <<last_driver_check, cached_driver_version,
                        driver_incompatible, last_probe>>
       ELSE /\ last_driver_check' = t
            /\ last_probe' = Some(t)
            /\ cached_driver_version' = version_str
            /\ driver_incompatible' = incompatible_after(version_str)

\* main, lines 759-762, and validate_exe, lines 313-351: the executable
\* answers; run_with_tray or run is called next
ValidateExe ==
  /\ pc = "main"
  /\ \E d \in machine.elapsed, v \in machine.probes :
       DriverCheck(now + d, v)
  /\ pc' = "start"
  /\ tray_pc' = IF machine.tray THEN "idle" ELSE "off"
  /\ UNCHANGED <<config, fan_curve, current_set_fan_percentage, running,
                 previous_temp, consecutive_failures, temp_history, raw_temp,
                 smoothed_temp, fan_speed, curve, target, held, ticks,
                 cmd_invoked, profile_name, sp_result, since_switch, severity,
                 success, bad_reads, call_vars, machine, sleep_time,
                 snap_vars>>

\* validate_exe returns False (lines 315-325, 352-356); main exits
ValidateFails ==
  /\ pc = "main"
  /\ pc' = "exit"
  /\ UNCHANGED <<config, fan_curve, current_set_fan_percentage, running,
                 previous_temp, consecutive_failures, temp_history, raw_temp,
                 smoothed_temp, fan_speed, curve, target, held, ticks,
                 cmd_invoked, tray_vars, since_switch, severity, success,
                 bad_reads, driver_vars, call_vars, machine, sleep_time,
                 snap_vars>>

\* main, line 759: --skip-validation
SkipValidation ==
  /\ pc = "main"
  /\ pc' = "start"
  /\ tray_pc' = IF machine.tray THEN "idle" ELSE "off"
  /\ UNCHANGED <<config, fan_curve, current_set_fan_percentage, running,
                 previous_temp, consecutive_failures, temp_history, raw_temp,
                 smoothed_temp, fan_speed, curve, target, held, ticks,
                 cmd_invoked, profile_name, sp_result, since_switch, severity,
                 success, bad_reads, driver_vars, call_vars, machine,
                 sleep_time, snap_vars>>

\* ------------------------------------------------------------------------
\* Control loop: FanController.run
\* ------------------------------------------------------------------------

\* run, lines 566-570
Run ==
  /\ pc = "start"
  /\ running' = TRUE
  /\ pc' = "while"
  /\ UNCHANGED <<config, fan_curve, current_set_fan_percentage, previous_temp,
                 consecutive_failures, temp_history, raw_temp, smoothed_temp,
                 fan_speed, curve, target, held, ticks, cmd_invoked,
                 tray_vars, since_switch, severity, success, bad_reads,
                 driver_vars, call_vars, machine, sleep_time, snap_vars>>

\* LoopEnter without the test of self.running
LoopEnter_ignores_running ==
  /\ pc = "while"
  /\ ticks < MaxTicks
  /\ pc' = "read"
  /\ ticks' = ticks + 1
  /\ cmd_invoked' = FALSE
  /\ sleep_time' = None
  /\ since_switch' = IF since_switch = "pending" THEN "first" ELSE "none"
  /\ UNCHANGED <<config, fan_curve, current_set_fan_percentage, running,
                 previous_temp, consecutive_failures, temp_history, raw_temp,
                 smoothed_temp, fan_speed, curve, target, held, tray_vars,
                 severity, success, bad_reads, driver_vars, call_vars,
                 machine, snap_vars>>

\* line 572, condition true: the iteration begins
LoopEnter ==
  /\ pc = "while"
  /\ running
  /\ ticks < MaxTicks
  /\ pc' = "read"
  /\ ticks' = ticks + 1
  /\ cmd_invoked' = FALSE
  /\ sleep_time' = None
  /\ since_switch' = IF since_switch = "pending" THEN "first" ELSE "none"
  /\ UNCHANGED <<config, fan_curve, current_set_fan_percentage, running,
                 previous_temp, consecutive_failures, temp_history, raw_temp,
                 smoothed_temp, fan_speed, curve, target, held, tray_vars,
                 severity, success, bad_reads, driver_vars, call_vars,
                 machine, snap_vars>>

\* line 572, condition false, then lines 663-664
LoopExit ==
  /\ pc = "while"
  /\ ~running
  /\ running' = FALSE
  /\ sleep_time' = None
  /\ pc' = "stopped"
  /\ UNCHANGED <<config, fan_curve, current_set_fan_percentage, previous_temp,
                 consecutive_failures, temp_history, raw_temp, smoothed_temp,
                 fan_speed, curve, target, held, ticks, cmd_invoked,
                 tray_vars, since_switch, severity, success, bad_reads,
                 driver_vars, call_vars, machine, snap_vars>>

\* line 574: get_cpu_temp, an external command
ReadTemp ==
  /\ pc = "read"
  /\ raw_temp' \in machine.reads
  /\ bad_reads' = IF raw_temp' = None THEN bad_reads + 1
                  ELSE IF Val(raw_temp') <= 0 THEN bad_reads + 1
                  ELSE 0
  /\ pc' = "classify"
  /\ UNCHANGED <<config, fan_curve, current_set_fan_percentage, running,
                 previous_temp, consecutive_failures, temp_history,
                 smoothed_temp, fan_speed, curve, target, held, ticks,
                 cmd_invoked, tray_vars, since_switch, severity, success,
                 driver_vars, call_vars, machine, sleep_time, snap_vars>>

\* SpikeRead that also records the reading in the history
SpikeRead_smooths ==
  /\ pc = "classify"
  /\ raw_temp # None /\ Val(raw_temp) > 0
  /\ detect_spike(previous_temp, Val(raw_temp))
  /\ consecutive_failures' = 0
  /\ fan_speed' = Some(100)
  /\ temp_history' =
       push(temp_history, Val(raw_temp), config.smoothing_window)
  /\ pc' = "prev592"
  /\ UNCHANGED <<config, fan_curve, current_set_fan_percentage, running,
                 previous_temp, raw_temp, smoothed_temp, curve, target, held,
                 ticks, cmd_invoked, tray_vars, since_switch, severity,
                 success, bad_reads, driver_vars, call_vars, machine,
                 sleep_time, snap_vars>>

\* lines 576-587: valid positive read, spike detected
SpikeRead ==
  /\ pc = "classify"
  /\ raw_temp # None /\ Val(raw_temp) > 0
  /\ detect_spike(previous_temp, Val(raw_temp))
  /\ consecutive_failures' = 0
  /\ fan_speed' = Some(100)
  /\ pc' = "prev592"
  /\ UNCHANGED <<config, fan_curve, current_set_fan_percentage, running,
                 previous_temp, temp_history, raw_temp, smoothed_temp, curve,
                 target, held, ticks, cmd_invoked, tray_vars, since_switch,
                 severity, success, bad_reads, driver_vars, call_vars,
                 machine, sleep_time, snap_vars>>

\* SmoothRead without the reset of line 577
SmoothRead_keeps_count ==
  /\ pc = "classify"
  /\ raw_temp # None /\ Val(raw_temp) > 0
  /\ ~detect_spike(previous_temp, Val(raw_temp))
  /\ consecutive_failures' = consecutive_failures
  /\ temp_history' = push(temp_history, Val(raw_temp), config.smoothing_window)
  /\ smoothed_temp' = mean(temp_history')
  /\ pc' = "decide"
  /\ UNCHANGED <<config, fan_curve, current_set_fan_percentage, running,
                 previous_temp, raw_temp, fan_speed, curve, target, held,
                 ticks, cmd_invoked, tray_vars, since_switch, severity,
                 success, bad_reads, driver_vars, call_vars, machine,
                 sleep_time, snap_vars>>

\* lines 576-580, 588-589: valid positive read, no spike; get_smoothed_temp
SmoothRead ==
  /\ pc = "classify"
  /\ raw_temp # None /\ Val(raw_temp) > 0
  /\ ~detect_spike(previous_temp, Val(raw_temp))
  /\ consecutive_failures' = 0
  /\ temp_history' = push(temp_history, Val(raw_temp), config.smoothing_window)
  /\ smoothed_temp' = mean(temp_history')
  /\ pc' = "decide"
  /\ UNCHANGED <<config, fan_curve, current_set_fan_percentage, running,
                 previous_temp, raw_temp, fan_speed, curve, target, held,
                 ticks, cmd_invoked, tray_vars, since_switch, severity,
                 success, bad_reads, driver_vars, call_vars, machine,
                 sleep_time, snap_vars>>

\* ZeroRead without the increment of line 597
ZeroRead_no_count ==
  /\ pc = "classify"
  /\ raw_temp = Some(0)
  /\ consecutive_failures' = consecutive_failures
  /\ fan_speed' = Some(100)
  /\ \E d \in machine.elapsed, v \in machine.probes :
       DriverCheck(now + d, v)
  /\ severity' = IF driver_incompatible' = Some(TRUE) THEN "critical"
                 ELSE "warning"
  /\ pc' = "dispatch"
  /\ UNCHANGED <<config, fan_curve, current_set_fan_percentage, running,
                 previous_temp, temp_history, raw_temp, smoothed_temp, curve,
                 target, held, ticks, cmd_invoked, tray_vars, since_switch,
                 success, bad_reads, call_vars, machine, sleep_time,
                 snap_vars>>

\* lines 594-617: the read is exactly zero
ZeroRead ==
  /\ pc = "classify"
  /\ raw_temp = Some(0)
  /\ consecutive_failures' = consecutive_failures + 1
  /\ fan_speed' = Some(100)
  /\ \E d \in machine.elapsed, v \in machine.probes :
       DriverCheck(now + d, v)
  /\ severity' = IF driver_incompatible' = Some(TRUE) THEN "critical"
                 ELSE "warning"
  /\ pc' = "dispatch"
  /\ UNCHANGED <<config, fan_curve, current_set_fan_percentage, running,
                 previous_temp, temp_history, raw_temp, smoothed_temp, curve,
                 target, held, ticks, cmd_invoked, tray_vars, since_switch,
                 success, bad_reads, call_vars, machine, sleep_time,
                 snap_vars>>

\* FailedRead without the assignment of line 622
FailedRead_no_safety ==
  /\ pc = "classify"
  /\ IF raw_temp = None THEN TRUE ELSE Val(raw_temp) < 0
  /\ consecutive_failures' = consecutive_failures + 1
  /\ severity' = IF consecutive_failures' >= config.max_consecutive_failures
                   THEN "critical"
                 ELSE "warning"
  /\ fan_speed' = IF fan_speed = None THEN Some(0) ELSE fan_speed
  /\ pc' = "dispatch"
  /\ UNCHANGED <<config, fan_curve, current_set_fan_percentage, running,
                 previous_temp, temp_history, raw_temp, smoothed_temp, curve,
                 target, held, ticks, cmd_invoked, tray_vars, since_switch,
                 success, bad_reads, driver_vars, call_vars, machine,
                 sleep_time, snap_vars>>

\* FailedRead with the driver check of lines 600-601 made on this branch too
FailedRead_probes ==
  /\ pc = "classify"
  /\ IF raw_temp = None THEN TRUE ELSE Val(raw_temp) < 0
  /\ consecutive_failures' = consecutive_failures + 1
  /\ severity' = IF consecutive_failures' >= config.max_consecutive_failures
                   THEN "critical"
                 ELSE "warning"
  /\ fan_speed' = Some(100)
  /\ \E d \in machine.elapsed, v \in machine.probes :
       DriverCheck(now + d, v)
  /\ pc' = "dispatch"
  /\ UNCHANGED <<config, fan_curve, current_set_fan_percentage, running,
                 previous_temp, temp_history, raw_temp, smoothed_temp, curve,
                 target, held, ticks, cmd_invoked, tray_vars, since_switch,
                 success, bad_reads, call_vars, machine, sleep_time,
                 snap_vars>>

\* lines 619-638: the read is None or negative
FailedRead ==
  /\ pc = "classify"
  /\ IF raw_temp = None THEN TRUE ELSE Val(raw_temp) < 0
  /\ consecutive_failures' = consecutive_failures + 1
  /\ severity' = IF consecutive_failures' >= config.max_consecutive_failures
                   THEN "critical"
                 ELSE "warning"
  /\ fan_speed' = Some(100)
  /\ pc' = "dispatch"
  /\ UNCHANGED <<config, fan_curve, current_set_fan_percentage, running,
                 previous_temp, temp_history, raw_temp, smoothed_temp, curve,
                 target, held, ticks, cmd_invoked, tray_vars, since_switch,
                 success, bad_reads, driver_vars, call_vars, machine,
                 sleep_time, snap_vars>>

\* decide_fan_speed, lines 494-513: one read of self._fan_curve
Decide494 ==
  /\ pc = "decide"
  /\ curve' = fan_curve
  /\ target' = Some(curve_target(fan_curve, smoothed_temp))
  /\ held' = FALSE
  /\ pc' = "hyst518"
  /\ UNCHANGED <<config, fan_curve, current_set_fan_percentage, running,
                 previous_temp, consecutive_failures, temp_history, raw_temp,
                 smoothed_temp, fan_speed, ticks, cmd_invoked, tray_vars,
                 since_switch, severity, success, bad_reads, driver_vars,
                 call_vars, machine, sleep_time, snap_vars>>

\* line 518: self.current_set_fan_percentage is not None
Hyst518 ==
  /\ pc = "hyst518"
  /\ pc' = IF current_set_fan_percentage = None THEN "clamp" ELSE "hyst519"
  /\ UNCHANGED <<config, fan_curve, current_set_fan_percentage, running,
                 previous_temp, consecutive_failures, temp_history, raw_temp,
                 smoothed_temp, fan_speed, curve, target, held, ticks,
                 cmd_invoked, tray_vars, since_switch, severity, success,
                 bad_reads, driver_vars, call_vars, machine, sleep_time,
                 snap_vars>>

\* Hyst519 without the comparison of line 519
Hyst519_any_target ==
  /\ pc = "hyst519"
  /\ pc' = IF current_set_fan_percentage = None THEN "except"
           ELSE IF /\ previous_temp # None
                   /\ hysteresis_holds(Val(previous_temp), smoothed_temp)
                THEN "hyst524"
                ELSE "clamp"
  /\ UNCHANGED <<config, fan_curve, current_set_fan_percentage, running,
                 previous_temp, consecutive_failures, temp_history, raw_temp,
                 smoothed_temp, fan_speed, curve, target, held, ticks,
                 cmd_invoked, tray_vars, since_switch, severity, success,
                 bad_reads, driver_vars, call_vars, machine, sleep_time,
                 snap_vars>>

\* Hyst519 without the test of previous_temp of line 520: an unknown
\* previous temperature counts as no drop
Hyst519_holds_unknown ==
  /\ pc = "hyst519"
  /\ pc' = IF current_set_fan_percentage = None THEN "except"
           ELSE IF Val(target) < Val(current_set_fan_percentage)
                THEN IF previous_temp = None THEN "hyst524"
                     ELSE IF hysteresis_holds(Val(previous_temp),
                                              smoothed_temp)
                       THEN "hyst524"
                     ELSE "clamp"
                ELSE "clamp"
  /\ UNCHANGED <<config, fan_curve, current_set_fan_percentage, running,
                 previous_temp, consecutive_failures, temp_history, raw_temp,
                 smoothed_temp, fan_speed, curve, target, held, ticks,
                 cmd_invoked, tray_vars, since_switch, severity, success,
                 bad_reads, driver_vars, call_vars, machine, sleep_time,
                 snap_vars>>

\* lines 519-523: the field is read again; comparing an int with None
\* raises TypeError, which run catches at line 659
Hyst519 ==
  /\ pc = "hyst519"
  /\ pc' = IF current_set_fan_percentage = None THEN "except"
           ELSE IF /\ Val(target) < Val(current_set_fan_percentage)
                   /\ previous_temp # None
                   /\ hysteresis_holds(Val(previous_temp), smoothed_temp)
                THEN "hyst524"
                ELSE "clamp"
  /\ UNCHANGED <<config, fan_curve, current_set_fan_percentage, running,
                 previous_temp, consecutive_failures, temp_history, raw_temp,
                 smoothed_temp, fan_speed, curve, target, held, ticks,
                 cmd_invoked, tray_vars, since_switch, severity, success,
                 bad_reads, driver_vars, call_vars, machine, sleep_time,
                 snap_vars>>

\* line 524: the field is read a third time
Hyst524 ==
  /\ pc = "hyst524"
  /\ target' = current_set_fan_percentage
  /\ held' = TRUE
  /\ pc' = "clamp"
  /\ UNCHANGED <<config, fan_curve, current_set_fan_percentage, running,
                 previous_temp, consecutive_failures, temp_history, raw_temp,
                 smoothed_temp, fan_speed, curve, ticks, cmd_invoked,
                 tray_vars, since_switch, severity, success, bad_reads,
                 driver_vars, call_vars, machine, sleep_time, snap_vars>>

\* line 526: min(100, None) raises TypeError
Clamp526 ==
  /\ pc = "clamp"
  /\ IF target = None
       THEN /\ pc' = "except"
            /\ UNCHANGED fan_speed
       ELSE /\ fan_speed' = Some(clamp(Val(target)))
            /\ pc' = "prev592"
  /\ UNCHANGED <<config, fan_curve, current_set_fan_percentage, running,
                 previous_temp, consecutive_failures, temp_history, raw_temp,
                 smoothed_temp, curve, target, held, ticks, cmd_invoked,
                 tray_vars, since_switch, severity, success, bad_reads,
                 driver_vars, call_vars, machine, sleep_time, snap_vars>>

\* line 592; the locals of the decide_fan_speed call are gone
SetPrev592 ==
  /\ pc = "prev592"
  /\ previous_temp' = raw_temp
  /\ curve' = <<>>
  /\ target' = None
  /\ held' = FALSE
  /\ pc' = "dispatch"
  /\ UNCHANGED <<config, fan_curve, current_set_fan_percentage, running,
                 consecutive_failures, temp_history, raw_temp, smoothed_temp,
                 fan_speed, ticks, cmd_invoked, tray_vars, since_switch,
                 severity, success, bad_reads, driver_vars, call_vars,
                 machine, sleep_time, snap_vars>>

\* Dispatch475 without the early return of lines 475-477
Dispatch475_always ==
  /\ pc = "dispatch"
  /\ pc' = "command"
  /\ success' = None
  /\ UNCHANGED <<config, fan_curve, current_set_fan_percentage, running,
                 previous_temp, consecutive_failures, temp_history, raw_temp,
                 smoothed_temp, fan_speed, curve, target, held, ticks,
                 cmd_invoked, tray_vars, since_switch, severity, bad_reads,
                 driver_vars, call_vars, machine, sleep_time, snap_vars>>

\* set_fan_speed, lines 475-477: the comparison
Dispatch475 ==
  /\ pc = "dispatch"
  /\ pc' = IF current_set_fan_percentage = fan_speed THEN "status"
           ELSE "command"
  /\ success' = IF current_set_fan_percentage = fan_speed THEN Some(TRUE)
                ELSE None
  /\ UNCHANGED <<config, fan_curve, current_set_fan_percentage, running,
                 previous_temp, consecutive_failures, temp_history, raw_temp,
                 smoothed_temp, fan_speed, curve, target, held, ticks,
                 cmd_invoked, tray_vars, since_switch, severity, bad_reads,
                 driver_vars, call_vars, machine, sleep_time, snap_vars>>

\* set_fan_speed, lines 479-485: the external command succeeded
CommandOk ==
  /\ pc = "command"
  /\ cmd_invoked' = TRUE
  /\ current_set_fan_percentage' = fan_speed
  /\ success' = Some(TRUE)
  /\ pc' = "status"
  /\ UNCHANGED <<config, fan_curve, running, previous_temp,
                 consecutive_failures, temp_history, raw_temp, smoothed_temp,
                 fan_speed, curve, target, held, ticks, tray_vars,
                 since_switch, severity, bad_reads, driver_vars, call_vars,
                 machine, sleep_time, snap_vars>>

\* CommandFail with the assignment of line 484 made on failure too
CommandFail_records ==
  /\ pc = "command"
  /\ cmd_invoked' = TRUE
  /\ success' = Some(FALSE)
  /\ current_set_fan_percentage' = fan_speed
  /\ pc' = "status"
  /\ UNCHANGED <<config, fan_curve, running, previous_temp,
                 consecutive_failures, temp_history, raw_temp, smoothed_temp,
                 fan_speed, curve, target, held, ticks, tray_vars,
                 since_switch, severity, bad_reads, driver_vars, call_vars,
                 machine, sleep_time, snap_vars>>

\* set_fan_speed, lines 479-482, 487-488: the external command failed
CommandFail ==
  /\ pc = "command"
  /\ cmd_invoked' = TRUE
  /\ success' = Some(FALSE)
  /\ pc' = "status"
  /\ UNCHANGED <<config, fan_curve, current_set_fan_percentage, running,
                 previous_temp, consecutive_failures, temp_history, raw_temp,
                 smoothed_temp, fan_speed, curve, target, held, ticks,
                 tray_vars, since_switch, severity, bad_reads, driver_vars,
                 call_vars, machine, sleep_time, snap_vars>>

\* lines 642-654: status line and sleep; the iteration's locals are not
\* read again before they are assigned
Status ==
  /\ pc = "status"
  /\ sleep_time' = Some(adaptive_sleep(config, raw_temp))
  /\ pc' = "while"
  /\ raw_temp' = None
  /\ smoothed_temp' = 0
  /\ fan_speed' = None
  /\ severity' = "none"
  /\ success' = None
  /\ UNCHANGED <<config, fan_curve, current_set_fan_percentage, running,
                 previous_temp, consecutive_failures, temp_history, curve,
                 target, held, ticks, cmd_invoked, tray_vars, since_switch,
                 bad_reads, driver_vars, call_vars, machine, snap_vars>>

\* subprocess.run, called by _run_command for get_cpu_temp (line 574),
\* set_fan_speed (line 479) or get_current_fan_speeds (line 646), raises an
\* exception that _run_command does not catch (lines 439-444)
Raises ==
  /\ machine.raises
  /\ pc \in {"read", "command", "status"}
  /\ cmd_invoked' = (cmd_invoked \/ pc = "command")
  /\ pc' = "except"
  /\ UNCHANGED <<config, fan_curve, current_set_fan_percentage, running,
                 previous_temp, consecutive_failures, temp_history, raw_temp,
                 smoothed_temp, fan_speed, curve, target, held, ticks,
                 severity, success, bad_reads, tray_vars, since_switch,
                 driver_vars, call_vars, machine, sleep_time, snap_vars>>

\* Except that lets the exception end run
Except_exits ==
  /\ pc = "except"
  /\ running' = FALSE
  /\ sleep_time' = None
  /\ pc' = "stopped"
  /\ raw_temp' = None
  /\ smoothed_temp' = 0
  /\ fan_speed' = None
  /\ severity' = "none"
  /\ success' = None
  /\ curve' = <<>>
  /\ target' = None
  /\ held' = FALSE
  /\ UNCHANGED <<config, fan_curve, current_set_fan_percentage, previous_temp,
                 consecutive_failures, temp_history, ticks, cmd_invoked,
                 tray_vars, since_switch, bad_reads, driver_vars, call_vars,
                 machine, snap_vars>>

\* lines 659-661: error logged, three-second backoff; the locals of the
\* iteration and of the call that raised are not read again
Except ==
  /\ pc = "except"
  /\ sleep_time' = Some(3)
  /\ pc' = "while"
  /\ raw_temp' = None
  /\ smoothed_temp' = 0
  /\ fan_speed' = None
  /\ severity' = "none"
  /\ success' = None
  /\ curve' = <<>>
  /\ target' = None
  /\ held' = FALSE
  /\ UNCHANGED <<config, fan_curve, current_set_fan_percentage, running,
                 previous_temp, consecutive_failures, temp_history, ticks,
                 cmd_invoked, tray_vars, since_switch, bad_reads, driver_vars,
                 call_vars, machine, snap_vars>>

\* SIGINT in headless mode, where run executes on the main thread and the
\* default handler raises KeyboardInterrupt in it.  Inside the try body
\* (lines 574-654, the sleep of line 654 included) the clause of lines
\* 655-657 logs and breaks, and lines 663-664 follow.  Inside the handler
\* of lines 659-661 (the backoff of line 661 included) no clause of the
\* same try statement applies: the exception leaves run, and main, with
\* lines 663-664 not executed.
Interrupt ==
  /\ ~machine.tray
  /\ pc \in {"read", "classify", "decide", "hyst518", "hyst519", "hyst524",
             "clamp", "prev592", "dispatch", "command", "status", "except"}
  /\ pc' = IF pc = "except" THEN "raised" ELSE "stopped"
  /\ running' = IF pc = "except" THEN running ELSE FALSE
  /\ raw_temp' = None
  /\ smoothed_temp' = 0
  /\ fan_speed' = None
  /\ severity' = "none"
  /\ success' = None
  /\ curve' = <<>>
  /\ target' = None
  /\ held' = FALSE
  /\ sleep_time' = None
  /\ UNCHANGED <<config, fan_curve, current_set_fan_percentage,
                 previous_temp, consecutive_failures, temp_history, ticks,
                 cmd_invoked, tray_vars, since_switch, bad_reads, driver_vars,
                 call_vars, machine, snap_vars>>

\* ------------------------------------------------------------------------
\* Tray thread: menu handlers of run_with_tray
\* ------------------------------------------------------------------------

\* SetProfileUnknown with the reset of line 307 made before the validation
SetProfileUnknown_resets(name) ==
  /\ tray_pc = "idle"
  /\ name \notin DOMAIN PROFILES
  /\ profile_name' = name
  /\ sp_result' = Some(FALSE)
  /\ tray_pc' = "returned"
  /\ current_set_fan_percentage' = None
  /\ UNCHANGED <<config, fan_curve, running, loop_vars, since_switch,
                 driver_vars, call_vars, machine, snap_vars>>

\* set_profile, lines 301-303: the name is no preset
SetProfileUnknown(name) ==
  /\ tray_pc = "idle"
  /\ name \notin DOMAIN PROFILES
  /\ profile_name' = name
  /\ sp_result' = Some(FALSE)
  /\ tray_pc' = "returned"
  /\ UNCHANGED <<config, fan_curve, current_set_fan_percentage, running,
                 loop_vars, since_switch, driver_vars, call_vars, machine,
                 snap_vars>>

\* set_profile, lines 301, 304
SetProfile304(name) ==
  /\ tray_pc = "idle"
  /\ name \in DOMAIN PROFILES
  /\ profile_name' = name
  /\ sp_result' = None
  /\ config' = [config EXCEPT !.profile = name]
  /\ tray_pc' = "sp305"
  /\ UNCHANGED <<fan_curve, current_set_fan_percentage, running, loop_vars,
                 since_switch, driver_vars, call_vars, machine, snap_vars>>

\* SetProfile305 without the assignment
SetProfile305_keeps_curve ==
  /\ tray_pc = "sp305"
  /\ tray_pc' = "sp306"
  /\ UNCHANGED <<config, fan_curve, current_set_fan_percentage, running,
                 loop_vars, profile_name, sp_result, since_switch,
                 driver_vars, call_vars, machine, snap_vars>>

\* set_profile, line 305
SetProfile305 ==
  /\ tray_pc = "sp305"
  /\ config' = [config EXCEPT !.curve = None]
  /\ tray_pc' = "sp306"
  /\ UNCHANGED <<fan_curve, current_set_fan_percentage, running, loop_vars,
                 profile_name, sp_result, since_switch, driver_vars,
                 call_vars, machine, snap_vars>>

\* SetProfile306 that writes the preset into the list _fan_curve refers
\* to, one waypoint at a time, the first in this step
SetProfile306_in_place ==
  /\ tray_pc = "sp306"
  /\ fan_curve' = <<PROFILES[profile_name][1]>> \o Tail(fan_curve)
  /\ tray_pc' = "sp307"
  /\ UNCHANGED <<config, current_set_fan_percentage, running, loop_vars,
                 profile_name, sp_result, since_switch, driver_vars,
                 call_vars, machine, snap_vars>>

\* set_profile, line 306
SetProfile306 ==
  /\ tray_pc = "sp306"
  /\ fan_curve' = PROFILES[profile_name]
  /\ tray_pc' = "sp307"
  /\ UNCHANGED <<config, current_set_fan_percentage, running, loop_vars,
                 profile_name, sp_result, since_switch, driver_vars,
                 call_vars, machine, snap_vars>>

\* SetProfile307 that also empties the temperature history
SetProfile307_clears_history ==
  /\ tray_pc = "sp307"
  /\ current_set_fan_percentage' = None
  /\ temp_history' = <<>>
  /\ sp_result' = Some(TRUE)
  /\ since_switch' = "pending"
  /\ tray_pc' = "returned"
  /\ UNCHANGED <<config, fan_curve, running, previous_temp,
                 consecutive_failures, pc, raw_temp, smoothed_temp, fan_speed,
                 curve, target, held, ticks, cmd_invoked, severity, success,
                 bad_reads, sleep_time, profile_name, driver_vars, call_vars,
                 machine, snap_vars>>

\* set_profile, lines 307-309
SetProfile307 ==
  /\ tray_pc = "sp307"
  /\ current_set_fan_percentage' = None
  /\ sp_result' = Some(TRUE)
  /\ since_switch' = "pending"
  /\ tray_pc' = "returned"
  /\ UNCHANGED <<config, fan_curve, running, loop_vars, profile_name,
                 driver_vars, call_vars, machine, snap_vars>>

\* the menu handler returns (tray.py, lines 685-686)
HandlerReturn ==
  /\ tray_pc = "returned"
  /\ tray_pc' = "idle"
  /\ profile_name' = ""
  /\ sp_result' = None
  /\ UNCHANGED <<config, fan_curve, current_set_fan_percentage, running,
                 loop_vars, since_switch, driver_vars, call_vars, machine,
                 snap_vars>>

\* FanController.stop, called by on_quit (tray.py, lines 679-682)
Stop ==
  /\ tray_pc = "idle"
  /\ running' = FALSE
  /\ tray_pc' = "quit"
  /\ UNCHANGED <<config, fan_curve, current_set_fan_percentage, loop_vars,
                 profile_name, sp_result, since_switch, driver_vars,
                 call_vars, machine, snap_vars>>

Next ==
  \/ ValidateExe \/ ValidateFails \/ SkipValidation
  \/ Run \/ LoopEnter \/ LoopExit \/ ReadTemp
  \/ SpikeRead \/ SmoothRead \/ ZeroRead \/ FailedRead
  \/ Decide494 \/ Hyst518 \/ Hyst519 \/ Hyst524 \/ Clamp526 \/ SetPrev592
  \/ Dispatch475 \/ CommandOk \/ CommandFail \/ Status \/ Except
  \/ \E name \in SwitchNames : SetProfileUnknown(name)
  \/ \E name \in SwitchNames : SetProfile304(name)
  \/ SetProfile305 \/ SetProfile306 \/ SetProfile307
  \/ HandlerReturn \/ Stop

Spec == Init /\ [][Next]_vars

\* Headless mode: main calls run on the main thread and no tray thread
\* exists, so nothing calls set_profile or stop.
HeadlessInit == InitWith(Configs, HeadlessMachine)

HeadlessNext ==
  \/ ValidateExe \/ ValidateFails \/ SkipValidation
  \/ Run \/ LoopEnter \/ ReadTemp
  \/ SpikeRead \/ SmoothRead \/ ZeroRead \/ FailedRead
  \/ Decide494 \/ Hyst518 \/ Hyst519 \/ Hyst524 \/ Clamp526 \/ SetPrev592
  \/ Dispatch475 \/ CommandOk \/ CommandFail \/ Status
  \/ Raises \/ Except

HeadlessSpec == HeadlessInit /\ [][HeadlessNext]_vars

\* Headless mode with Ctrl+C: the terminal sends SIGINT to the process at
\* any moment.
InterruptNext == HeadlessNext \/ Interrupt

InterruptSpec == HeadlessInit /\ [][InterruptNext]_vars

\* ------------------------------------------------------------------------
\* Direct calls: a caller holding a freshly constructed controller feeds
\* it temperatures of its choice, doing with each what run does on lines
\* 576-592
\* ------------------------------------------------------------------------

CallInit ==
  InitWith({c \in Configs : c.profile \in {"balanced", "legacy"}},
           HeadlessMachine)

\* the caller takes the controller as __init__ left it
CallBegin ==
  /\ pc = "main"
  /\ pc' = "call"
  /\ UNCHANGED <<config, fan_curve, current_set_fan_percentage, running,
                 previous_temp, consecutive_failures, temp_history, raw_temp,
                 smoothed_temp, fan_speed, curve, target, held, ticks,
                 cmd_invoked, severity, success, bad_reads, tray_vars,
                 since_switch, driver_vars, call_vars, machine, sleep_time,
                 snap_vars>>

\* the caller passes a temperature; lines 576-589 follow (SpikeRead or
\* SmoothRead)
Call ==
  /\ pc = "call"
  /\ calls < MaxCalls
  /\ \E t \in CallTemps : raw_temp' = Some(t)
  /\ calls' = calls + 1
  /\ pc' = "classify"
  /\ UNCHANGED <<config, fan_curve, current_set_fan_percentage, running,
                 previous_temp, consecutive_failures, temp_history,
                 smoothed_temp, fan_speed, curve, target, held, ticks,
                 cmd_invoked, severity, success, bad_reads, tray_vars,
                 since_switch, driver_vars, pushed, machine, sleep_time,
                 snap_vars>>

\* line 592, after either branch; the caller notes the value that
\* get_smoothed_temp was given
CallReturn ==
  /\ pc \in {"prev592", "decide"}
  /\ previous_temp' = raw_temp
  /\ pushed' = IF pc = "decide" THEN Append(pushed, Val(raw_temp))
               ELSE pushed
  /\ raw_temp' = None
  /\ smoothed_temp' = 0
  /\ fan_speed' = None
  /\ pc' = "call"
  /\ UNCHANGED <<config, fan_curve, current_set_fan_percentage, running,
                 consecutive_failures, temp_history, curve, target, held,
                 ticks, cmd_invoked, severity, success, bad_reads, tray_vars,
                 since_switch, driver_vars, calls, machine, sleep_time,
                 snap_vars>>

CallNext == CallBegin \/ Call \/ SpikeRead \/ SmoothRead \/ CallReturn

CallSpec == CallInit /\ [][CallNext]_vars

\* ------------------------------------------------------------------------
\* Direct calls on controllers of every configuration: the constructor
\* resolves the curve, and the caller reaches the status line of run with
\* a raw temperature of its choice
\* ------------------------------------------------------------------------

\* Raw temperatures at the status line: None or an integer.
SleepTemps == {None} \cup { Some(t) : t \in (0 - 1)..MaxTemp }

UnitInit == InitWith(UnitConfigs, HeadlessMachine)

\* lines 646-651 are reached with a raw temperature of the caller's choice
CallSleep ==
  /\ pc = "call"
  /\ calls < MaxCalls
  /\ raw_temp' \in SleepTemps
  /\ calls' = calls + 1
  /\ pc' = "status"
  /\ UNCHANGED <<config, fan_curve, current_set_fan_percentage, running,
                 previous_temp, consecutive_failures, temp_history,
                 smoothed_temp, fan_speed, curve, target, held, ticks,
                 cmd_invoked, severity, success, bad_reads, sleep_time,
                 tray_vars, since_switch, driver_vars, pushed, machine,
                 snap_vars>>

\* the caller goes on to its next call
CallAgain ==
  /\ pc = "while"
  /\ sleep_time' = None
  /\ pc' = "call"
  /\ UNCHANGED <<config, fan_curve, current_set_fan_percentage, running,
                 previous_temp, consecutive_failures, temp_history, raw_temp,
                 smoothed_temp, fan_speed, curve, target, held, ticks,
                 cmd_invoked, severity, success, bad_reads, tray_vars,
                 since_switch, driver_vars, call_vars, machine, snap_vars>>

UnitNext == CallBegin \/ CallSleep \/ Status \/ CallAgain

UnitSpec == UnitInit /\ [][UnitNext]_vars

\* ------------------------------------------------------------------------
\* Direct calls of _check_driver_if_needed on a freshly constructed
\* controller, with a driver that reports any of ProbeVersions
\* ------------------------------------------------------------------------

ProbeMachine ==
  [reads |-> {None},
   probes |-> {None} \cup { Some(v) : v \in ProbeVersions },
   elapsed |-> Elapsed, raises |-> FALSE, tray |-> FALSE]

ProbeInit ==
  InitWith({c \in Configs : c.profile = "balanced"}, ProbeMachine)

\* one call of _check_driver_if_needed, lines 386-426
CallDriverCheck ==
  /\ pc = "call"
  /\ calls < MaxCalls
  /\ \E d \in machine.elapsed, v \in machine.probes :
       DriverCheck(now + d, v)
  /\ calls' = calls + 1
  /\ UNCHANGED <<config, fan_curve, current_set_fan_percentage, running,
                 loop_vars, tray_vars, since_switch, pushed, machine,
                 snap_vars>>

ProbeNext == CallBegin \/ CallDriverCheck

ProbeSpec == ProbeInit /\ [][ProbeNext]_vars

\* icon_updater finds controller.running false (tray.py, line 775) and
\* returns; the thread was started at line 812, after the fan thread
IconUpdaterExit ==
  /\ tray_pc # "off"
  /\ updater_pc = "test"
  /\ ~running
  /\ updater_pc' = "exited"
  /\ UNCHANGED <<config, fan_curve, current_set_fan_percentage, running,
                 loop_vars, tray_vars, since_switch, driver_vars, call_vars,
                 machine, snapshot, view>>

\* ------------------------------------------------------------------------
\* Tray mode with stop as the only call of the tray thread.  The thread of
\* run keeps being scheduled, every external command returns or raises
\* within subprocess_timeout and every sleep ends: weak fairness of the
\* steps of run.
\* ------------------------------------------------------------------------

StopInit == InitWith(Configs, StopMachine)

\* the steps of the thread that executes run
LoopStep ==
  \/ Run \/ LoopEnter \/ LoopExit \/ ReadTemp
  \/ SpikeRead \/ SmoothRead \/ ZeroRead \/ FailedRead
  \/ Decide494 \/ Hyst518 \/ Hyst519 \/ Hyst524 \/ Clamp526 \/ SetPrev592
  \/ Dispatch475 \/ CommandOk \/ CommandFail \/ Status
  \/ Raises \/ Except

StopNext ==
  \/ ValidateExe \/ ValidateFails \/ SkipValidation
  \/ LoopStep
  \/ Stop
  \/ IconUpdaterExit

StopSpec == StopInit /\ [][StopNext]_vars /\ WF_vars(LoopStep)

\* ------------------------------------------------------------------------
\* Status snapshots.  The tray and the dashboard call
\* controller.get_status_snapshot() (tray.py, lines 588 and 776) and read
\* the keys raw_temp, smoothed_temp, target_fan_speed,
\* current_set_fan_percentage, profile, consecutive_failures and
\* driver_incompatible of its result.  The loop publishes one immutable
\* snapshot at the status line of each iteration, and the accessor returns
\* the snapshot published last.
\* ------------------------------------------------------------------------

\* the values a snapshot taken now holds
StatusNow ==
  [raw_temp |-> raw_temp,
   smoothed_temp |-> smoothed_temp,
   target_fan_speed |-> fan_speed,
   current_set_fan_percentage |-> current_set_fan_percentage,
   profile |-> config.profile,
   consecutive_failures |-> consecutive_failures,
   driver_incompatible |-> driver_incompatible]

\* Status, with the snapshot of the iteration published in one assignment
StatusPublishes ==
  /\ pc = "status"
  /\ snapshot' = Some(StatusNow)
  /\ sleep_time' = Some(adaptive_sleep(config, raw_temp))
  /\ pc' = "while"
  /\ raw_temp' = None
  /\ smoothed_temp' = 0
  /\ fan_speed' = None
  /\ severity' = "none"
  /\ success' = None
  /\ UNCHANGED <<config, fan_curve, current_set_fan_percentage, running,
                 previous_temp, consecutive_failures, temp_history, curve,
                 target, held, ticks, cmd_invoked, tray_vars, since_switch,
                 bad_reads, driver_vars, call_vars, machine, view,
                 updater_pc>>

\* a reader that takes the failure counter from the controller and the
\* other keys from the published snapshot
GetStatusSnapshot_torn ==
  /\ tray_pc = "idle"
  /\ updater_pc = "test"
  /\ running
  /\ view' = IF snapshot = None THEN None
             ELSE Some([Val(snapshot) EXCEPT
                          !.consecutive_failures = consecutive_failures])
  /\ UNCHANGED <<config, fan_curve, current_set_fan_percentage, running,
                 loop_vars, tray_vars, since_switch, driver_vars, call_vars,
                 machine, snapshot, updater_pc>>

\* icon_updater (tray.py, lines 775-776) or refresh_ui (line 588) calls
\* get_status_snapshot while the controller runs
GetStatusSnapshot ==
  /\ tray_pc = "idle"
  /\ updater_pc = "test"
  /\ running
  /\ view' = snapshot
  /\ UNCHANGED <<config, fan_curve, current_set_fan_percentage, running,
                 loop_vars, tray_vars, since_switch, driver_vars, call_vars,
                 machine, snapshot, updater_pc>>

SnapshotInit == InitWith(Configs, TrayMachine)

SnapshotNext ==
  \/ ValidateExe \/ ValidateFails \/ SkipValidation
  \/ Run \/ LoopEnter \/ ReadTemp
  \/ SpikeRead \/ SmoothRead \/ ZeroRead \/ FailedRead
  \/ Decide494 \/ Hyst518 \/ Hyst519 \/ Hyst524 \/ Clamp526 \/ SetPrev592
  \/ Dispatch475 \/ CommandOk \/ CommandFail \/ StatusPublishes
  \/ GetStatusSnapshot

SnapshotSpec == SnapshotInit /\ [][SnapshotNext]_vars

\* ------------------------------------------------------------------------
\* Properties
\* ------------------------------------------------------------------------

Abs(x) == IF x < 0 THEN 0 - x ELSE x

\* decide_fan_speed has returned to run and line 592 has not yet run
Decided ==
  /\ pc = "prev592"
  /\ ~detect_spike(previous_temp, Val(raw_temp))

\* the target the curve read by this decision gives for its temperature
T == curve_target(curve, smoothed_temp)
S == Val(current_set_fan_percentage)
P == Val(previous_temp)
Low == curve[1]
High == curve[Len(curve)]

\* C1: on an iteration whose read is zero, missing or negative, the speed
\* handed to set_fan_speed is 100, whatever the curve, the last dispatched
\* speed and the failure count are.
C1_FailureTargetIs100 ==
  (pc \in {"dispatch", "command"}
     /\ (IF raw_temp = None THEN TRUE ELSE Val(raw_temp) <= 0))
  => fan_speed = Some(100)

\* a third failed read in a row reaches the dispatcher while the last
\* dispatched speed is a lower curve value
C1_Witness ==
  /\ pc = "dispatch"
  /\ raw_temp \in {None, Some(0), Some(-1)}
  /\ consecutive_failures >= 2
  /\ current_set_fan_percentage # None
  /\ S < 100

\* C2: current_set_fan_percentage is unset or in 0..100, and every speed
\* handed to set_fan_speed is in 0..100, also for a custom curve whose
\* waypoint speeds lie outside 0..100.
C2_SpeedInRange ==
  /\ current_set_fan_percentage # None => S \in 0..100
  /\ pc \in {"dispatch", "command"} =>
       (fan_speed # None /\ Val(fan_speed) \in 0..100)

\* the first read is 90: the custom curve's target of 130 reaches the
\* dispatcher as 100
C2_Witness ==
  /\ pc = "dispatch"
  /\ ticks = 1
  /\ raw_temp = Some(90)
  /\ config.curve = Some(CustomCurveA)
  /\ fan_curve[Len(fan_curve)] = <<70, 130>>
  /\ fan_speed = Some(100)

\* C3 as stated: with S set, P known and a curve target T < S, the decision
\* is S when P - temp < H and T itself when P - temp >= H.
C3_HysteresisReturnsT ==
  (Decided /\ current_set_fan_percentage # None /\ previous_temp # None
     /\ T < S)
  => fan_speed = Some(IF P - smoothed_temp < hysteresis_degrees
                        THEN S ELSE T)

\* C3 amended: with S set, P known and a curve target T < S, the decision
\* is S when P - temp < H and T clamped to 0..100 when P - temp >= H.
C3_HysteresisReturnsClampedT ==
  (Decided /\ current_set_fan_percentage # None /\ previous_temp # None
     /\ T < S)
  => fan_speed = Some(IF P - smoothed_temp < hysteresis_degrees
                        THEN S ELSE clamp(T))

\* a decision that holds the previous speed although the curve asks less
C3_Witness ==
  /\ Decided
  /\ current_set_fan_percentage # None /\ previous_temp # None
  /\ T < S
  /\ P - smoothed_temp < hysteresis_degrees
  /\ P - smoothed_temp > 0
  /\ fan_speed = current_set_fan_percentage

\* C4: whenever the curve target is at least the last dispatched speed,
\* the decision is the clamped curve target, whatever previous_temp is.
C4_IncreaseNeverBlocked ==
  (Decided /\ current_set_fan_percentage # None /\ T >= S)
  => fan_speed = Some(clamp(T))

\* the curve asks more than the last dispatched speed while the temperature
\* drop is below the hysteresis margin
C4_Witness ==
  /\ Decided
  /\ current_set_fan_percentage # None /\ previous_temp # None
  /\ T > S
  /\ P - smoothed_temp < hysteresis_degrees
  /\ fan_speed = Some(T)

\* C5 as stated: at or below the lowest waypoint the decision is exactly
\* that waypoint's speed, at or above the highest waypoint exactly the
\* highest waypoint's speed.
C5_BoundaryExact ==
  Decided =>
    /\ smoothed_temp <= Low[1] => fan_speed = Some(Low[2])
    /\ smoothed_temp >= High[1] => fan_speed = Some(High[2])

\* C5 amended: at or below the lowest waypoint (at or above the highest
\* one) the decision is that waypoint's speed clamped to 0..100, unless the
\* hysteresis guard holds the last dispatched speed.
C5_BoundaryClampedUnlessHeld ==
  (Decided /\ ~held) =>
    /\ smoothed_temp <= Low[1] => fan_speed = Some(clamp(Low[2]))
    /\ smoothed_temp >= High[1] => fan_speed = Some(clamp(High[2]))

\* a decision below the lowest waypoint of a curve that starts above 0
C5_Witness ==
  /\ Decided /\ ~held
  /\ smoothed_temp < Low[1]
  /\ fan_speed = Some(Low[2])
  /\ current_set_fan_percentage # None

\* the first ascending pair of waypoints that brackets the temperature
Bracket ==
  Min({ i \in 1..(Len(curve) - 1) :
          curve[i][1] <= smoothed_temp /\ smoothed_temp <= curve[i + 1][1] })

Interior == Low[1] < smoothed_temp /\ smoothed_temp < High[1]

\* sLow + (temp-tLow)*(sHigh-sLow)/(tHigh-tLow) for the bracketing pair, as
\* the fraction ExactNum / ExactDen
ExactDen == curve[Bracket + 1][1] - curve[Bracket][1]
ExactNum ==
  curve[Bracket][2] * ExactDen
    + (smoothed_temp - curve[Bracket][1])
        * (curve[Bracket + 1][2] - curve[Bracket][2])

\* v is an integer within 1/2 of the interpolated value (sHigh when the pair
\* shares its temperature)
Nearest(v) ==
  IF ExactDen = 0 THEN v = curve[Bracket + 1][2]
  ELSE 2 * Abs(v * ExactDen - ExactNum) <= ExactDen

\* the integers that can be within 1/2 of the interpolated value
Candidates ==
  IF ExactDen = 0 THEN {curve[Bracket + 1][2]}
  ELSE {ExactNum \div ExactDen, (ExactNum \div ExactDen) + 1}

\* C6 as stated: strictly between the lowest and highest waypoint and with
\* no hysteresis override, the decision is an integer nearest to the
\* interpolated value; the balanced preset gives 38 at 45.
C6_InterpolationNearest ==
  (Decided /\ ~held /\ Interior) =>
    /\ Nearest(Val(fan_speed))
    /\ (curve = PROFILES.balanced /\ smoothed_temp = 45)
         => fan_speed = Some(38)

\* C6 amended: ... the decision is an integer nearest to the interpolated
\* value, clamped to 0..100; the balanced preset gives 38 at 45.
C6_InterpolationNearestClamped ==
  (Decided /\ ~held /\ Interior) =>
    /\ \E v \in Candidates : Nearest(v) /\ fan_speed = Some(clamp(v))
    /\ (curve = PROFILES.balanced /\ smoothed_temp = 45)
         => fan_speed = Some(38)

\* the balanced preset decides at 45 degrees, halfway between two waypoints
C6_Witness ==
  /\ Decided /\ ~held /\ Interior
  /\ curve = PROFILES.balanced
  /\ smoothed_temp = 45
  /\ fan_speed = Some(38)

NonDecreasingSpeeds(c) == \A i \in 1..(Len(c) - 1) : c[i][2] <= c[i + 1][2]
SortedByTemp(c) == \A i \in 1..(Len(c) - 1) : c[i][1] <= c[i + 1][1]

\* C7: for a curve sorted by temperature with non-decreasing speeds, the
\* curve target, and its clamped value, never decreases when the
\* temperature rises, also across waypoints sharing a temperature.
C7_TargetMonotonic ==
  (pc = "hyst518" /\ SortedByTemp(curve) /\ NonDecreasingSpeeds(curve))
  => \A t \in (0 - 10)..(MaxTemp - 1) :
       LET a == curve_target(curve, t)
           b == curve_target(curve, t + 1)
       IN  /\ a <= b
           /\ clamp(a) <= clamp(b)
           /\ t = smoothed_temp => a = Val(target)

\* a decision on the custom curve that has two waypoints at 50 degrees
C7_Witness ==
  /\ pc = "hyst518"
  /\ curve = sorted(CustomCurveA)
  /\ \E i \in 1..(Len(curve) - 1) : curve[i][1] = curve[i + 1][1]
  /\ NonDecreasingSpeeds(curve)
  /\ target = Some(curve_target(curve, smoothed_temp))

\* C8: the first iteration begun after set_profile returned true runs the
\* external set-fan-speed command when it reaches the dispatcher.
C8_SwitchForcesDispatch ==
  (pc = "status" /\ since_switch = "first") => cmd_invoked

\* a set_profile call whose name is no preset
UnknownCall ==
  /\ tray_pc = "idle"
  /\ tray_pc' = "returned"
  /\ profile_name' \notin DOMAIN PROFILES

\* C9: set_profile with a name that is no preset returns false and leaves
\* the curve, the config, the last dispatched speed, previous_temp,
\* temp_history and the failure counter as they were.
C9_UnknownProfileNoEffect ==
  [][UnknownCall =>
       /\ sp_result' = Some(FALSE)
       /\ UNCHANGED <<fan_curve, config, current_set_fan_percentage,
                      previous_temp, temp_history, consecutive_failures>>
    ]_vars

\* set_profile("turbo") has returned false on a controller that had
\* dispatched a speed and filled its history
C9_Witness ==
  /\ tray_pc = "returned"
  /\ sp_result = Some(FALSE)
  /\ profile_name = "turbo"
  /\ current_set_fan_percentage # None
  /\ temp_history # <<>>

\* the step that completes a set_profile call with a preset name
KnownReturn == tray_pc = "sp307" /\ tray_pc' = "returned"

\* C10: set_profile with a preset name returns true, and when it returns
\* the active curve is that preset's table, config["curve"] is cleared,
\* config["profile"] is the name and the last dispatched speed is unset,
\* also when the controller was started with a custom curve.
C10_KnownProfilePostcondition ==
  [][KnownReturn =>
       /\ sp_result' = Some(TRUE)
       /\ fan_curve' = PROFILES[profile_name]
       /\ config'.curve = None
       /\ config'.profile = profile_name
       /\ current_set_fan_percentage' = None
    ]_vars

\* set_profile("performance") has returned true while the loop's last
\* decision still holds the custom curve the controller was started with
C10_Witness ==
  /\ tray_pc = "returned"
  /\ sp_result = Some(TRUE)
  /\ profile_name = "performance"
  /\ fan_curve = PROFILES.performance
  /\ curve = sorted(CustomCurveA)
  /\ config.profile = "performance"
  /\ config.curve = None
  /\ current_set_fan_percentage = None

\* ------------------------------------------------------------------------
\* Failure counting and escalation
\* ------------------------------------------------------------------------

\* the read of the iteration in progress has been classified
Classified == pc \notin {"read", "classify"}

\* the read the iteration classified was None or negative
MissingRead ==
  /\ severity # "none"
  /\ IF raw_temp = None THEN TRUE ELSE Val(raw_temp) < 0

\* C11: consecutive_failures is never negative and, once an iteration has
\* classified its read, equals the number of most recent consecutive reads
\* that were zero, missing or negative: each such read adds exactly one and
\* a valid positive read resets it to 0.
C11_CounterTracksBadReads ==
  /\ consecutive_failures >= 0
  /\ pc # "classify" => consecutive_failures = bad_reads

\* a failed read after a reset: the third read failed, the second did not
C11_Witness ==
  /\ pc = "status"
  /\ ticks = 3
  /\ bad_reads = 1
  /\ consecutive_failures = 1
  /\ previous_temp # None

\* C12: on a missing read the target is 100 and the logged level is
\* critical when the read is at least the max_consecutive_failures-th bad
\* read in a row and warning on the earlier bad reads of the row; a valid
\* positive read resets the counter to 0.
C12_EscalationAtLimit ==
  /\ MissingRead =>
       /\ fan_speed = Some(100)
       /\ severity = IF bad_reads >= config.max_consecutive_failures
                       THEN "critical"
                     ELSE "warning"
  /\ (Classified /\ raw_temp # None /\ bad_reads = 0) =>
       consecutive_failures = 0

\* the second missing read in a row with a limit of 2
C12_Witness ==
  /\ pc = "status"
  /\ raw_temp = None
  /\ severity = "critical"
  /\ bad_reads = 2
  /\ config.max_consecutive_failures = 2

\* C13: an iteration that leaves consecutive_failures at or above
\* max_consecutive_failures logs at critical level, whether its read was
\* zero, missing or negative.
C13_LockedRaisesCritical ==
  (severity # "none"
     /\ consecutive_failures >= config.max_consecutive_failures)
    => severity = "critical"

\* ------------------------------------------------------------------------
\* Dispatch
\* ------------------------------------------------------------------------

\* C14: the external command is invoked only while the target differs from
\* current_set_fan_percentage (or that is unset); when the comparison of
\* set_fan_speed finds them equal the iteration invokes no command and
\* set_fan_speed returns True.
C14_DispatchIdempotent ==
  [][ /\ (cmd_invoked' /\ ~cmd_invoked) =>
           (pc = "command" /\ current_set_fan_percentage # fan_speed)
      /\ (pc = "dispatch" /\ pc' # pc) =>
           IF current_set_fan_percentage = fan_speed
             THEN pc' = "status" /\ ~cmd_invoked' /\ success' = Some(TRUE)
             ELSE pc' = "command" ]_vars

\* a later iteration found the fan already at its target
C14_Witness ==
  /\ pc = "status"
  /\ ticks >= 2
  /\ ~cmd_invoked
  /\ success = Some(TRUE)
  /\ current_set_fan_percentage = fan_speed

\* the step is the return of the external set command
CommandReturns == pc = "command" /\ pc' # pc

\* C15: current_set_fan_percentage changes only by being unset or by a
\* successful external command, which sets it to that command's percentage,
\* and every successful command sets it: when set it is the percentage of
\* the latest successful command.  A failed command leaves it unchanged and
\* different from the target, the iteration goes on to the status line and
\* the sleep, and a later comparison with the same target invokes the
\* command.
C15_SetSpeedTracksCommands ==
  [][ /\ current_set_fan_percentage' # current_set_fan_percentage =>
           \/ current_set_fan_percentage' = None
           \/ /\ CommandReturns
              /\ success' = Some(TRUE)
              /\ current_set_fan_percentage' = fan_speed
      /\ (CommandReturns /\ success' = Some(TRUE)) =>
           current_set_fan_percentage' = fan_speed
      /\ (CommandReturns /\ success' # Some(TRUE)) =>
           /\ success' = Some(FALSE)
           /\ current_set_fan_percentage' = current_set_fan_percentage
           /\ current_set_fan_percentage' # fan_speed'
           /\ pc' = "status"
      /\ (pc = "status" /\ success = Some(FALSE) /\ pc' # pc) =>
           pc' = "while"
      /\ (pc = "dispatch" /\ pc' # pc
            /\ current_set_fan_percentage # fan_speed) =>
           pc' = "command" ]_vars

\* a failed command left the percentage of an earlier command in place
C15_Witness ==
  /\ pc = "status"
  /\ success = Some(FALSE)
  /\ current_set_fan_percentage # None
  /\ current_set_fan_percentage # fan_speed

\* ------------------------------------------------------------------------
\* Spikes and smoothing
\* ------------------------------------------------------------------------

\* the step classifies a valid positive read
ClassifiesValid ==
  /\ pc = "classify"
  /\ pc' # pc
  /\ raw_temp # None
  /\ Val(raw_temp) > 0

\* the reading is at least spike_threshold above the previous one
Jump ==
  IF previous_temp = None THEN FALSE
  ELSE Val(raw_temp) - Val(previous_temp) >= 15

\* C16: a valid reading takes the spike branch exactly when previous_temp
\* is known and the reading exceeds it by at least spike_threshold (15):
\* 80 after 60 is a spike, 70 after 60 is not, and the first reading, with
\* previous_temp unknown, never is.
C16_SpikeIffJump ==
  [][ ClassifiesValid =>
        /\ (pc' = "prev592") <=> Jump
        /\ (pc' = "decide") <=> ~Jump
        /\ (previous_temp = Some(60) /\ raw_temp = Some(80)) =>
             pc' = "prev592"
        /\ (previous_temp = Some(60) /\ raw_temp = Some(70)) =>
             pc' = "decide"
        /\ previous_temp = None => pc' = "decide" ]_vars

\* 80 after 60 took the spike branch
C16_Witness ==
  /\ pc = "prev592"
  /\ previous_temp = Some(60)
  /\ raw_temp = Some(80)

\* C17: an iteration whose reading is a spike sets the target to 100
\* without smoothing or evaluating the curve: temp_history and
\* smoothed_temp are untouched (only the no-spike branch ever changes the
\* history) and line 592 still sets previous_temp to the raw reading.
C17_SpikeBypassesSmoothing ==
  [][ /\ (ClassifiesValid /\ Jump) =>
           /\ pc' = "prev592"
           /\ fan_speed' = Some(100)
           /\ UNCHANGED <<temp_history, smoothed_temp, previous_temp>>
      /\ (pc = "prev592" /\ pc' # pc) =>
           /\ pc' = "dispatch"
           /\ previous_temp' = raw_temp
           /\ UNCHANGED <<temp_history, fan_speed>>
      /\ temp_history' # temp_history =>
           (ClassifiesValid /\ ~Jump /\ pc' = "decide") ]_vars

\* 90 after 45: the spike is the previous temperature and not in the history
C17_Witness ==
  /\ pc = "dispatch"
  /\ fan_speed = Some(100)
  /\ raw_temp = Some(90)
  /\ previous_temp = Some(90)
  /\ temp_history = <<45>>

\* the values get_smoothed_temp has been given, the one of the call in
\* progress last
Pushed == Append(pushed, Val(raw_temp))

\* the last k items of s
LastOf(s, k) == SubSeq(s, Len(s) - k + 1, Len(s))

\* C18: after the n-th call of get_smoothed_temp the history holds the last
\* min(n, smoothing_window) values passed, oldest first, and the result is
\* their mean rounded to an integer; with a window of 5, passing 50, 60,
\* 70, 80, 90 gives 70 on the fifth call and passing 100 next gives 80.
C18_SmoothedIsWindowMean ==
  (pc = "decide" /\ calls > 0) =>
    LET k == Min({Len(Pushed), config.smoothing_window})
        w == LastOf(Pushed, k)
    IN  /\ temp_history = w
        /\ 2 * Abs(smoothed_temp * k - Sum(w)) <= k
        /\ (config.smoothing_window = 5
              /\ Pushed = <<50, 60, 70, 80, 90>>) => smoothed_temp = 70
        /\ (config.smoothing_window = 5
              /\ Pushed = <<50, 60, 70, 80, 90, 100>>) => smoothed_temp = 80

\* the sixth call of the example
C18_Witness ==
  /\ pc = "decide"
  /\ config.smoothing_window = 5
  /\ pushed = <<50, 60, 70, 80, 90>>
  /\ raw_temp = Some(100)
  /\ temp_history = <<60, 70, 80, 90, 100>>
  /\ smoothed_temp = 80

\* ------------------------------------------------------------------------
\* Driver probe
\* ------------------------------------------------------------------------

\* the step calls check_driver_version
Probes == last_probe' # last_probe

\* C19: two calls of check_driver_version, from the startup validation or
\* from a zero read, are at least 60 seconds apart, and a zero read less
\* than 60 seconds after the latest check changes neither
\* _driver_incompatible nor _last_driver_check.
C19_ProbesThrottled ==
  [][ /\ (Probes /\ last_probe # None) =>
           Val(last_probe') - Val(last_probe) >= 60
      /\ (pc = "classify" /\ pc' # pc /\ raw_temp = Some(0)
            /\ now' - last_driver_check < 60) =>
           UNCHANGED <<driver_incompatible, last_driver_check,
                       last_probe>> ]_vars

\* a zero read 59 seconds after a probe
C19_Witness ==
  /\ pc = "dispatch"
  /\ raw_temp = Some(0)
  /\ last_probe # None
  /\ now - Val(last_probe) = 59

\* the probe of this step returned a version that is not above 3.1.38.0
ReportsCompatible ==
  /\ cached_driver_version' # None
  /\ ~tuple_gt(parse_version(Val(cached_driver_version')),
               COMPATIBLE_DRIVER_VERSION)

\* C20: once _driver_incompatible is True it changes only in a step whose
\* probe reports a compatible version.
C20_StickyUntilCompatible ==
  [][ (driver_incompatible = Some(TRUE)
         /\ driver_incompatible' # Some(TRUE)) =>
        (Probes /\ ReportsCompatible) ]_vars

\* C20 as the code has it: once _driver_incompatible is True it changes
\* only in a step that probes, to False when the probe reports a compatible
\* version and to None when the probe returns no version.
C20_StickyUntilReprobed ==
  [][ (driver_incompatible = Some(TRUE)
         /\ driver_incompatible' # Some(TRUE)) =>
        /\ Probes
        /\ IF cached_driver_version' = None
             THEN driver_incompatible' = None
             ELSE ReportsCompatible /\ driver_incompatible' = Some(FALSE)
    ]_vars

\* the verdict outlived a zero read inside the throttle window
C20_Witness ==
  /\ pc = "dispatch"
  /\ raw_temp = Some(0)
  /\ driver_incompatible = Some(TRUE)
  /\ now - last_driver_check = 59

\* ------------------------------------------------------------------------
\* Loop structure: probes, sleeps, termination, error recovery
\* ------------------------------------------------------------------------

\* the read being classified is None or negative
ClassifiesMissing ==
  /\ pc = "classify"
  /\ pc' # pc
  /\ IF raw_temp = None THEN TRUE ELSE Val(raw_temp) < 0

\* C21: inside the loop check_driver_version is called only by an
\* iteration whose read is exactly zero; an iteration whose read is None
\* or negative adds one to consecutive_failures and leaves
\* _driver_incompatible, _last_driver_check and the cached version as
\* they were.
C21_ProbeOnlyOnZeroRead ==
  [][ /\ (Probes /\ pc # "main") =>
           (pc = "classify" /\ raw_temp = Some(0))
      /\ ClassifiesMissing =>
           /\ consecutive_failures' = consecutive_failures + 1
           /\ UNCHANGED <<driver_incompatible, last_driver_check,
                          cached_driver_version, last_probe>> ]_vars

\* a missing read classified after a zero read had set the verdict
C21_Witness ==
  /\ pc = "dispatch"
  /\ raw_temp = None
  /\ severity # "none"
  /\ consecutive_failures = 2
  /\ driver_incompatible = Some(TRUE)
  /\ last_probe # None
  /\ Val(last_probe) > 1060

\* the status line is passed and the sleep of line 654 begins
Sleeps == pc = "status" /\ pc' = "while"

\* C22: the sleep that ends an iteration is a function of the raw
\* temperature and high_temp only: 3 seconds when the temperature is
\* None, zero or negative, 10 when it is below high_temp - 10, 5 when it
\* is at least high_temp - 10 and below high_temp, 3 when it is at least
\* high_temp; no other duration occurs.
C22_SleepByTemperature ==
  [][ Sleeps =>
        /\ sleep_time' \in {Some(3), Some(5), Some(10)}
        /\ (raw_temp = None) => sleep_time' = Some(3)
        /\ (raw_temp # None) =>
             LET t == Val(raw_temp)
                 h == config.high_temp
             IN /\ (t <= 0) => sleep_time' = Some(3)
                /\ (t > 0 /\ t < h - 10) => sleep_time' = Some(10)
                /\ (t > 0 /\ h - 10 <= t /\ t < h) => sleep_time' = Some(5)
                /\ (t > 0 /\ t >= h) => sleep_time' = Some(3) ]_vars

\* a medium sleep under a high_temp that is not the default
C22_Witness ==
  /\ pc = "while"
  /\ sleep_time = Some(5)
  /\ config.high_temp = 50
  /\ calls = 2

\* stop has been called after run set running (line 568), that is, while
\* the loop was iterating
StopRequested ==
  /\ tray_pc = "quit"
  /\ ~running
  /\ pc \notin {"main", "start"}

\* C23: once stop has been called while the loop is iterating, no
\* temperature read is started any more and running stays false;
\* the iteration in progress, its sleep or backoff included, is
\* the last one, and the loop terminates with running = false.
C23_StopEndsLoop ==
  /\ [][ StopRequested =>
           /\ ~(pc # "read" /\ pc' = "read")
           /\ ~running' ]_vars
  /\ StopRequested ~> (pc = "stopped" /\ ~running)

\* the loop has stopped on request after two iterations, the second of
\* which had invoked the fan command
C23_Witness ==
  /\ tray_pc = "quit"
  /\ pc = "stopped"
  /\ ~running
  /\ ticks = 2
  /\ cmd_invoked

\* the positions of run inside an iteration
InIteration ==
  pc \notin {"main", "start", "while", "stopped", "exit", "raised"}

\* C24: an exception raised inside an iteration does not end run: the
\* handler is entered, it sleeps three seconds and returns to the loop
\* condition with running as it was, from where the next iteration begins
\* when running is set; run ends only from the loop condition, with
\* running false.
C24_LoopSurvivesErrors ==
  [][ /\ (InIteration /\ pc' # pc) => pc' \notin {"stopped", "exit"}
      /\ (pc = "except" /\ pc' # pc) =>
           /\ pc' = "while"
           /\ sleep_time' = Some(3)
           /\ running' = running
      /\ (pc = "while" /\ running /\ pc' # pc) => pc' = "read"
      /\ (pc' = "stopped" /\ pc # "stopped") =>
           (pc = "while" /\ ~running) ]_vars

\* the first read raised: the loop condition is reached again after the
\* backoff, with running still set and no read ever classified
C24_Witness ==
  /\ pc = "while"
  /\ running
  /\ ticks = 1
  /\ sleep_time = Some(3)
  /\ bad_reads = 0
  /\ previous_temp = None

\* the iteration in progress has obtained no valid positive temperature
NoValidTemp == IF raw_temp = None THEN TRUE ELSE Val(raw_temp) <= 0

\* the iteration ends: its sleep, or the backoff of the handler, is made
\* and the loop condition is reached
IterationEnds == pc \in {"status", "except"} /\ pc' = "while"

\* C25: an iteration that obtained no valid positive temperature, be it
\* for a failed read, a zero read or an exception recovered by the
\* handler of the loop, ends with 100 as its target, and the loop goes on.
C25_BadTickEndsAt100 ==
  [][ (IterationEnds /\ NoValidTemp) =>
        /\ fan_speed = Some(100)
        /\ running' = running ]_vars

\* ------------------------------------------------------------------------
\* Curve resolution and profile switches
\* ------------------------------------------------------------------------

\* a and b hold the same waypoints, each as many times
SameWaypoints(a, b) ==
  /\ Len(a) = Len(b)
  /\ \A i \in 1..Len(a) :
       Cardinality({ j \in 1..Len(a) : a[j] = a[i] })
         = Cardinality({ j \in 1..Len(b) : b[j] = a[i] })

\* the configuration carries a non-empty explicit waypoint list
HasExplicitCurve ==
  IF config.curve = None THEN FALSE ELSE Val(config.curve) # <<>>

\* C26: the curve the constructor resolved is never empty and follows the
\* priority: with a non-empty explicit list it is that list sorted by
\* temperature, every waypoint kept with the speed it was given; otherwise
\* with a preset name it is the preset's table; otherwise it is the two
\* points (low_temp, min_speed), (high_temp, max_speed).
C26_ResolutionPriority ==
  /\ Len(fan_curve) > 0
  /\ IF HasExplicitCurve
       THEN /\ SameWaypoints(fan_curve, Val(config.curve))
            /\ SortedByTemp(fan_curve)
     ELSE IF config.profile \in {"silent", "balanced", "performance"}
       THEN fan_curve = PROFILES[config.profile]
     ELSE fan_curve = << <<config.low_temp, config.min_speed>>,
                         <<config.high_temp, config.max_speed>> >>

\* an unsorted explicit list with speeds outside 0..100, under a preset
\* name: it was sorted and otherwise kept
C26_Witness ==
  /\ config.profile = "silent"
  /\ config.curve = Some(CustomCurveA)
  /\ fan_curve # CustomCurveA
  /\ fan_curve[1] = <<30, 0 - 20>>
  /\ fan_curve[4] = <<70, 130>>
  /\ pc = "call"

\* C27: in every reachable state the active curve is non-empty and sorted
\* ascending by temperature, whether the explicit list, a preset, the
\* legacy thresholds or a profile switch produced it.
C27_ActiveCurveSorted ==
  /\ fan_curve # <<>>
  /\ SortedByTemp(fan_curve)

\* a step of set_profile
SetProfileStep ==
  /\ tray_pc \in {"idle", "sp305", "sp306", "sp307"}
  /\ tray_pc' # tray_pc
  /\ tray_pc' \in {"sp305", "sp306", "sp307", "returned"}

\* C28: the step in which set_profile returns True leaves temp_history
\* empty and current_set_fan_percentage unset.
C28_SwitchResetsHistoryAndSetSpeed ==
  [][ KnownReturn =>
        /\ temp_history' = <<>>
        /\ current_set_fan_percentage' = None ]_vars

\* C28 as the code has it: set_profile leaves current_set_fan_percentage
\* unset when it returns True and never changes temp_history, so the
\* samples read before the switch stay in the window.
C28_SwitchResetsSetSpeedOnly ==
  [][ /\ SetProfileStep => temp_history' = temp_history
      /\ KnownReturn => current_set_fan_percentage' = None ]_vars

\* the first iteration after a switch smooths over a window that still
\* holds a sample read before the switch
C28_Witness ==
  /\ since_switch = "first"
  /\ pc = "decide"
  /\ Len(temp_history) = 2
  /\ temp_history[1] # temp_history[2]
  /\ smoothed_temp # Val(raw_temp)
  /\ current_set_fan_percentage = None

\* C29: a profile switch made by the tray thread while an iteration is in
\* flight does not affect that iteration, which decides and dispatches
\* with the curve and the current_set_fan_percentage it began with; in
\* particular, on a machine whose external commands never raise, no
\* iteration is cut short by the handler of line 659.
C29_SwitchLeavesTickAlone ==
  (~machine.raises) => pc # "except"

\* ------------------------------------------------------------------------
\* Status snapshots
\* ------------------------------------------------------------------------

\* what one status line can have published: the failure counter is zero
\* exactly when the temperature is valid and positive, and the target is
\* 100 when it is not
OneStatusLine(v) ==
  LET bad == IF v.raw_temp = None THEN TRUE ELSE Val(v.raw_temp) <= 0
  IN /\ bad <=> v.consecutive_failures > 0
     /\ bad => v.target_fan_speed = Some(100)

Settled ==
  /\ raw_temp # None
  /\ previous_temp = raw_temp
  /\ \A i \in 1..Len(temp_history) : temp_history[i] = Val(raw_temp)

\* C31: hysteresis only delays a decrease: once the temperature has
\* settled at a constant value, the decision is the clamped curve target
\* for that value, however high the speed applied before.  (When the
\* decision of a settled iteration is held instead, every later iteration
\* at the same temperature repeats it, and the speed never drops.)
C31_SettledTemperatureReleases ==
  (Decided /\ Settled) => fan_speed = Some(clamp(T))

\* C32: previous_temp is written only by line 592, with the raw
\* temperature of the iteration, and every iteration that read a valid
\* positive temperature has written it by the time it ends; an iteration
\* whose read is zero, missing or negative changes neither previous_temp
\* nor temp_history, so the next valid read is compared with the last
\* valid read before the failures.
C32_PreviousTempOncePerValidTick ==
  [][ /\ (previous_temp' # previous_temp) =>
           (pc = "prev592" /\ previous_temp' = raw_temp)
      /\ (InIteration /\ pc # "read" /\ NoValidTemp) =>
           UNCHANGED <<previous_temp, temp_history>>
      /\ (IterationEnds /\ ~NoValidTemp) =>
           previous_temp = raw_temp ]_vars

\* the step is taken by the thread of run
LoopMoves == pc' # pc

\* C33: a decision that finds current_set_fan_percentage unset (line 518)
\* or previous_temp unknown (line 520) applies no hysteresis and returns
\* the clamped curve target: on the first valid read after startup, after
\* startup failures, and after a profile switch.
C33_BootstrapSkipsHysteresis ==
  [][ /\ (pc = "hyst518" /\ LoopMoves
            /\ current_set_fan_percentage = None) =>
           (pc' = "clamp" /\ ~held' /\ target' = Some(T))
      /\ (pc = "hyst519" /\ LoopMoves
            /\ current_set_fan_percentage # None
            /\ previous_temp = None) =>
           (pc' = "clamp" /\ ~held' /\ target' = Some(T))
      /\ (pc = "clamp" /\ LoopMoves /\ ~held) =>
           fan_speed' = Some(clamp(T))
      /\ (pc = "clamp" /\ LoopMoves /\ previous_temp = None) =>
           fan_speed' = Some(clamp(T)) ]_vars

\* the first valid read after a startup failure that applied 100: the
\* decision is the lower curve target
C33_Witness ==
  /\ Decided
  /\ previous_temp = None
  /\ current_set_fan_percentage = Some(100)
  /\ fan_speed = Some(clamp(T))
  /\ Val(fan_speed) < 100

\* ------------------------------------------------------------------------
\* Interrupts and the start-up of the threads
\* ------------------------------------------------------------------------

\* run has returned or has been left by an exception
RunEnded == pc \in {"stopped", "raised"}

\* C34: an interrupt at any point of an iteration, the sleep of the
\* iteration and the three-second backoff included, ends the loop through
\* the clause that logs it, and run ends with running = false.
C34_InterruptEndsRun ==
  RunEnded => (pc = "stopped" /\ ~running)

\* ------------------------------------------------------------------------
\* Driver verdict
\* ------------------------------------------------------------------------

\* every field of the version string is a decimal numeral
Numeric(v) == \A i \in 1..Len(v) : v[i] \in DOMAIN IntOf

\* the fields of a numeric version string as integers
Fields(v) == [i \in 1..Len(v) |-> IntOf[v[i]]]

\* a is above b in tuple order: at the first position where they differ a
\* has the greater item, or b has ended
Above(a, b) ==
  \E k \in 1..Len(a) :
    /\ \A i \in 1..(k - 1) : i <= Len(b) /\ a[i] = b[i]
    /\ IF k > Len(b) THEN TRUE ELSE a[k] > b[k]

\* C35: a probe that returns a version sets _driver_incompatible to True
\* exactly when the version, read as a tuple of integers, is strictly
\* above (3, 1, 38, 0) in tuple order, and to False otherwise (3.1.38.0
\* itself is compatible); a probe that returns no version sets it to None.
C35_VerdictByTupleOrder ==
  [][ Probes =>
        IF cached_driver_version' = None
          THEN driver_incompatible' = None
          ELSE LET v == Val(cached_driver_version')
               IN driver_incompatible' =
                    Some(Numeric(v) /\ Above(Fields(v), <<3, 1, 38, 0>>))
    ]_vars

\* the third call found the driver at 3.1.38.0 itself: compatible
C35_Witness ==
  /\ pc = "call"
  /\ calls = 3
  /\ cached_driver_version = Some(<<"3", "1", "38", "0">>)
  /\ driver_incompatible = Some(FALSE)

\* ------------------------------------------------------------------------
\* The window of samples
\* ------------------------------------------------------------------------

\* the newest k values of s, all of s when it has no more than k
Newest(s, k) == IF Len(s) <= k THEN s ELSE LastOf(s, k)

\* C36: temp_history never holds more than smoothing_window values; an
\* iteration whose read is valid, positive and no spike appends its raw
\* temperature, the oldest value leaving a full window, and no other step
\* of any iteration changes the history.
C36_HistoryBoundedOnePerSmoothedTick ==
  /\ [](Len(temp_history) <= config.smoothing_window)
  /\ [][ /\ (ClassifiesValid /\ ~Jump) =>
              temp_history' =
                Newest(Append(temp_history, Val(raw_temp)),
                       config.smoothing_window)
         /\ ~(ClassifiesValid /\ ~Jump) =>
              temp_history' = temp_history ]_vars

\* a full window of two after three iterations, the latest sample last
C36_Witness ==
  /\ pc = "decide"
  /\ ticks = 3
  /\ config.smoothing_window = 2
  /\ temp_history = <<44, 45>>
  /\ raw_temp = Some(45)
  /\ previous_temp = Some(44)

\* ------------------------------------------------------------------------
\* Decreases between iterations
\* ------------------------------------------------------------------------

\* C37: with no profile switch, a decision taken on a valid read that is
\* no spike, a valid read having come before it, is lower than the speed
\* applied last only if the previous raw temperature exceeds the smoothed
\* temperature of this iteration by at least hysteresis_degrees.
C37_DecreaseNeedsDrop ==
  (/\ Decided
   /\ previous_temp # None
   /\ current_set_fan_percentage # None
   /\ Val(fan_speed) < S)
    => P - smoothed_temp >= hysteresis_degrees

\* a decrease: the read fell from 90 to 45, the window mean to 68
C37_Witness ==
  /\ Decided
  /\ previous_temp = Some(90)
  /\ raw_temp = Some(45)
  /\ smoothed_temp = 68
  /\ current_set_fan_percentage = Some(100)
  /\ Val(fan_speed) < 100

\* ------------------------------------------------------------------------
\* Start-up races
\* ------------------------------------------------------------------------

\* C38: a stop request is never lost, whenever stop is called after the
\* fan thread was started: once stop has been called, running is false
\* and stays false, so the loop condition ends the loop.  (Nothing but
\* stop clears running while the loop iterates: if running is set after
\* the call, the loop never terminates.)
C38_StopNeverLost ==
  tray_pc = "quit" => ~running

\* C39: in tray mode the icon updater does not return before the control
\* loop has stopped or stop has been called, however the start-up of the
\* fan thread and of the updater thread interleave.
C39_UpdaterOutlivesLoop ==
  updater_pc = "exited" => (tray_pc = "quit" \/ pc = "stopped")

\* ------------------------------------------------------------------------
\* One curve per decision
\* ------------------------------------------------------------------------

\* the curves _fan_curve can refer to: what the constructor resolved from
\* a configuration, and the preset tables
WholeCurves ==
  { resolve_fan_curve(c) : c \in Configs }
    \cup { PROFILES[n] : n \in DOMAIN PROFILES }

\* C40: one call of decide_fan_speed evaluates one single curve: the curve
\* it read at line 494 is a whole curve, never a mixture of the waypoints
\* of two profiles, and its target is the target of that curve, also when
\* set_profile replaces _fan_curve while the decision is under way.
C40_DecisionOnOneCurve ==
  (pc \in {"hyst518", "hyst519", "hyst524"}) =>
    /\ curve \in WholeCurves
    /\ target = Some(T)

\* set_profile has replaced _fan_curve while the decision is under way:
\* the decision goes on with the curve it read
C40_Witness ==
  /\ pc = "hyst519"
  /\ tray_pc \in {"sp307", "returned"}
  /\ curve # fan_curve
  /\ curve \in WholeCurves
  /\ fan_curve = PROFILES["performance"]
  /\ target = Some(T)
  /\ T # curve_target(fan_curve, smoothed_temp)

====
